---- MODULE Spec2Model ----
(***************************************************************************)
(* State-machine model of the Aranet4 MCP server: the Aranet4Manager of    *)
(* src/src/aranet.py (ingestion, watermark, queries) and the tool handlers *)
(* of src/src/server.py.                                                   *)
(*                                                                         *)
(* Time is counted in whole seconds.  An optional value (Python None or a  *)
(* value) is a sequence of length 0 or 1.  A timezone-aware datetime is a  *)
(* record [inst, off]: the UTC instant and the UTC offset of its zone.     *)
(***************************************************************************)
EXTENDS Integers, Sequences, FiniteSets, TLC

\* ------------------------------------------------------------- constants
\* limit: int = 100, the default ceiling of the time-range tool.
DefaultLimit == 100
\* num_retries: int = 3, the retries of a fetch the tool starts.
DefaultRetries == 3

\* ---------------------------------------------------------------- bounds
MaxTime == 1
MaxRetries == 2
MaxLimit == 2
MaxAdverts == 2
ManyRows == 401
LocalOffset == 1

\* ------------------------------------------------------------- universes
Names == {"kitchen", "camera"}
Macs == {"m1", "m2"}
Paths == {"p1", "p2"}
Errors == {"timeout", "disconnected"}
Tasks == {"t1", "t2"}

VARIABLES
    now,      \* wall clock, UTC seconds
    log,      \* log[mac]: the records held in the memory of the device at mac
    store,    \* store[path]: the sqlite file at path: has it the table, and its rows
    mgr,      \* the live Aranet4Manager: device_name, device_mac, db_path, ...
    cfg,      \* mcp.cfg, the in-memory configuration dict
    disk,     \* the files of the working directory: config.yaml and config_bk/
    fetch,    \* fetch[t]: the locals of fetch_new_data invocation t
    query,    \* the locals of a get_data_by_timerange call inside its thinning loop
    scan,     \* the locals of a scan_devices invocation
    ret       \* the value the step just taken returned to its caller, if any

vars == <<now, log, store, mgr, cfg, disk, fetch, query, scan, ret>>

\* ------------------------------------------------------------ datetimes
\* Offset of the zone named by Aranet4Manager.local_timezone.
TzOffset(zone) == IF zone = "UTC" THEN 0 ELSE LocalOffset

\* datetime.fromtimestamp(ts, tz=utc).astimezone(ZoneInfo(zone))
FromTimestamp(ts, zone) == [inst |-> ts, off |-> TzOffset(zone)]

\* datetime.isoformat(): the wall-clock reading and the offset suffix.
IsoFormat(dt) == [wall |-> dt.inst + dt.off, off |-> dt.off]

\* ------------------------------------------------------------- sequences
RECURSIVE SortAsc(_, _)
\* The elements of the finite set S as a sequence ascending in the key k[x].
SortAsc(S, k) ==
    IF S = {} THEN <<>>
    ELSE LET x == CHOOSE y \in S : \A z \in S : k[y] <= k[z]
         IN  <<x>> \o SortAsc(S \ {x}, k)

Range(s) == {s[i] : i \in 1..Len(s)}

\* --------------------------------------------------------------- device
\* The CO2 values the sensor at mac can record; a negative value is the
\* device's marker of an invalid sample.
Co2Values(mac) == IF mac = "m1" THEN {-1, 400} ELSE {420}

\* The samples the devices can record in one second, one per device.
Samples ==
    {c \in [Macs -> UNION {Co2Values(m) : m \in Macs}] :
        \A m \in Macs : c[m] \in Co2Values(m)}

\* One record of the device log: the fields fetch_new_data reads of an entry.
Entry(ts, c) ==
    [date |-> ts, temperature |-> IF c = 420 THEN 22 ELSE 21,
     humidity |-> 40, pressure |-> 1000, co2 |-> c]

\* aranet4.client._all_records(mac, entry_filter): the records of the device
\* whose date lies in the window of entry_filter, oldest first.
AllRecords(mac, entry_filter) ==
    LET inWindow == {e \in log[mac] :
                        /\ entry_filter.start # <<>> =>
                               entry_filter.start[1].inst <= e.date
                        /\ e.date <= entry_filter.end.inst}
    IN  SortAsc(inWindow, [e \in inWindow |-> e.date])

\* ---------------------------------------------------------------- store
\* Variant: a plain INSERT into a table that has no primary key.
InsertPlain(table, row) == table \cup {row}

\* INSERT OR IGNORE of one row into a table with PRIMARY KEY(device, timestamp).
InsertOrIgnore(table, row) ==
    IF \E r \in table : r.device = row.device /\ r.timestamp = row.timestamp
    THEN table
    ELSE table \cup {row}

\* Variant: execute in place of executemany, the first row only.
ExecuteManyFirst(table, data) ==
    IF data = <<>> THEN table ELSE InsertOrIgnore(table, Head(data))

RECURSIVE ExecuteMany(_, _)
\* cur.executemany('INSERT OR IGNORE ...', data): the rows of data in order.
ExecuteMany(table, data) ==
    IF data = <<>> THEN table
    ELSE ExecuteMany(InsertOrIgnore(table, Head(data)), Tail(data))

\* Variant: the setter drops and re-creates the table.
CreateTableFresh(db) == [exists |-> TRUE, rows |-> {}]

\* The db_path setter's CREATE TABLE IF NOT EXISTS measurements(...).
CreateTableIfNotExists(db) ==
    IF db.exists THEN db ELSE [exists |-> TRUE, rows |-> {}]

\* Variant: the WHERE device = ? clause is missing.
get_last_timestamp_any(table, device_name, zone) ==
    LET ts == {r.timestamp : r \in table}
    IN  IF ts = {} THEN <<>>
        ELSE <<FromTimestamp(CHOOSE m \in ts : \A u \in ts : u <= m, zone)>>

\* SELECT MAX(timestamp) FROM measurements WHERE device = ?, as an aware
\* datetime in the local zone; None when the device has no row.
get_last_timestamp(table, device_name, zone) ==
    LET ts == {r.timestamp : r \in {x \in table : x.device = device_name}}
    IN  IF ts = {} THEN <<>>
        ELSE <<FromTimestamp(CHOOSE m \in ts : \A u \in ts : u <= m, zone)>>

\* ------------------------------------------------------------ rendering
\* _format_data_as_markdown: the header and, per row, the values with the
\* timestamp column rewritten as local time '%Y-%m-%d %H:%M:%S %z': the
\* wall-clock reading and the offset, the content of IsoFormat.
FormatMarkdown(column_names, rows, timestamp_idx, zone) ==
    [header |-> column_names,
     lines  |-> [i \in 1..Len(rows) |->
                    [rows[i] EXCEPT ![timestamp_idx] =
                        IsoFormat(FromTimestamp(rows[i][timestamp_idx], zone))]]]

\* ------------------------------------------------------- fetch_new_data
\* A step that returns nothing to a caller.
NoReturn == [tool |-> "none", args |-> <<>>, value |-> <<>>, read |-> <<>>]

\* The step ends invocation tool(args), which returns value; read is the
\* history read (address and window) the device answered in this step, if any.
Returned(tool, args, value, read) ==
    [tool |-> tool, args |-> args, value |-> value, read |-> read]

\* While get_data_by_timerange runs its thinning loop the event loop is
\* blocked: the method is synchronous, no other handler can take a step.
LoopFree == query.pc = "idle"

\* The locals of an invocation that is not running. watermark: the device
\* name and the database that the watermark read of line 241 was made with.
IdleFetch ==
    [pc |-> "idle", num_retries |-> 0, attempt |-> 0, calls |-> 0,
     filter |-> [start |-> <<>>, end |-> [inst |-> 0, off |-> 0]],
     mac |-> "", range_start |-> <<>>, range_end |-> [wall |-> 0, off |-> 0],
     errors |-> <<>>, watermark |-> [device |-> "", db |-> ""]]

\* Variant: only the last error is reported.
FailureReportLastError(f, errors) ==
    [kind |-> "fetch_failed", device |-> mgr.device_name, mac |-> mgr.device_mac,
     range_start |-> f.range_start, range_end |-> f.range_end,
     errors |-> IF errors = <<>> THEN <<>> ELSE <<errors[Len(errors)]>>]

\* The text returned when every attempt failed (lines 261-267).
FailureReport(f, errors) ==
    [kind |-> "fetch_failed", device |-> mgr.device_name, mac |-> mgr.device_mac,
     range_start |-> f.range_start, range_end |-> f.range_end, errors |-> errors]

\* Variant: the test of the CO2 value is inverted.
BuildDataInverted(history, device_name) ==
    LET keep == SelectSeq(history, LAMBDA e : e.co2 < 0)
    IN  [i \in 1..Len(keep) |->
            <<device_name, keep[i].date, keep[i].temperature, keep[i].humidity,
              keep[i].pressure, keep[i].co2>>]

\* The tuples built from the history (lines 269-282): negative CO2 skipped.
BuildData(history, device_name) ==
    LET keep == SelectSeq(history, LAMBDA e : ~(e.co2 < 0))
    IN  [i \in 1..Len(keep) |->
            <<device_name, keep[i].date, keep[i].temperature, keep[i].humidity,
              keep[i].pressure, keep[i].co2>>]

\* A tuple of BuildData as the row the INSERT statement stores.
RowOf(d) ==
    [device |-> d[1], timestamp |-> d[2], temperature |-> d[3],
     humidity |-> d[4], pressure |-> d[5], CO2 |-> d[6]]

\* Variant: the table lists the data, the count leaves out the first row.
SuccessReportShort(f, data) ==
    [kind |-> "fetched", count |-> IF data = <<>> THEN 0 ELSE Len(data) - 1,
     range_start |-> f.range_start, range_end |-> f.range_end,
     table |-> FormatMarkdown(
                  <<"device", "timestamp", "temperature", "humidity", "pressure", "co2">>,
                  data, 2, mgr.local_timezone)]

\* The text returned after a successful read (lines 292-302).
SuccessReport(f, data) ==
    [kind |-> "fetched", count |-> Len(data),
     range_start |-> f.range_start, range_end |-> f.range_end,
     table |-> FormatMarkdown(
                  <<"device", "timestamp", "temperature", "humidity", "pressure", "co2">>,
                  data, 2, mgr.local_timezone)]

\* Variant: the loop runs once more.
InRangeInclusive(attempt, num_retries) == attempt <= num_retries

\* for attempt in range(num_retries): is there an attempt numbered attempt?
InRange(attempt, num_retries) == attempt < num_retries

\* Lines 252-254: one more read of the device is issued and awaited.
IssueAttempt(f, attempt) ==
    [f EXCEPT !.pc = "await", !.attempt = attempt, !.calls = f.calls + 1,
              !.filter.end = FromTimestamp(now, mgr.local_timezone),
              !.mac = mgr.device_mac]

\* fetch_new_data is called: lines 237-254, up to the first await (or, with
\* num_retries = 0, through to the failure report).
FetchStart(t, num_retries) ==
    /\ LoopFree
    /\ fetch[t].pc = "idle"
    /\ LET end   == FromTimestamp(now, mgr.local_timezone)
           last  == get_last_timestamp(store[mgr.db_path].rows, mgr.device_name,
                                       mgr.local_timezone)
           f0    == [IdleFetch EXCEPT
                        !.num_retries = num_retries,
                        !.filter = [start |-> last, end |-> end],
                        !.watermark = [device |-> mgr.device_name, db |-> mgr.db_path],
                        !.range_start = IF last # <<>> THEN <<IsoFormat(last[1])>> ELSE <<>>,
                        !.range_end = IsoFormat(end)]
       IN  IF InRange(0, num_retries)
           THEN /\ fetch' = [fetch EXCEPT ![t] = IssueAttempt(f0, 0)]
                /\ ret' = NoReturn
           ELSE /\ fetch' = [fetch EXCEPT ![t] = IdleFetch]
                /\ ret' = Returned("fetch_new_data", <<num_retries>>,
                                    FailureReport(f0, <<>>), <<>>)
    /\ UNCHANGED <<now, log, store, mgr, cfg, disk, query, scan>>

\* The awaited read raises (lines 256-260): the error is recorded and the
\* loop goes on to the next attempt, or ends with the failure report.
AttemptFail(t, e) ==
    /\ LoopFree
    /\ fetch[t].pc = "await"
    /\ LET f      == fetch[t]
           errors == Append(f.errors, [msg |-> e, call |-> f.calls])
           f1     == [f EXCEPT !.errors = errors]
       IN  IF InRange(f.attempt + 1, f.num_retries)
           THEN /\ fetch' = [fetch EXCEPT ![t] = IssueAttempt(f1, f.attempt + 1)]
                /\ ret' = NoReturn
           ELSE /\ fetch' = [fetch EXCEPT ![t] = IdleFetch]
                /\ ret' = Returned("fetch_new_data", <<f.num_retries>>,
                                    FailureReport(f1, errors), <<>>)
    /\ UNCHANGED <<now, log, store, mgr, cfg, disk, query, scan>>

\* The awaited read returns the history (line 254, break): lines 269-302.
AttemptOk(t) ==
    /\ LoopFree
    /\ fetch[t].pc = "await"
    /\ LET f       == fetch[t]
           history == AllRecords(f.mac, f.filter)
           data    == BuildData(history, mgr.device_name)
       IN  /\ store' = [store EXCEPT ![mgr.db_path].rows =
                            ExecuteMany(@, [i \in 1..Len(data) |-> RowOf(data[i])])]
           /\ ret' = Returned("fetch_new_data", <<f.num_retries>>,
                               SuccessReport(f, data),
                               <<[mac |-> f.mac, filter |-> f.filter]>>)
           /\ fetch' = [fetch EXCEPT ![t] = IdleFetch]
    /\ UNCHANGED <<now, log, mgr, cfg, disk, query, scan>>

\* -------------------------------------------------------------- queries
Sensors == <<"temperature", "humidity", "pressure", "CO2">>

\* s.strip().lower().replace('co2', 'CO2') on the selector pieces in use.
CleanSensor(s) ==
    CASE s \in {"co2", "CO2", " Co2"} -> "CO2"
      [] s \in {"temperature", "Temperature "} -> "temperature"
      [] s \in {"humidity", "pressure", "all", "ozone"} -> s
      [] OTHER -> s

\* sanitize_sensors: sensors is the selector split at its commas. The value is
\* the cleaned list, or <<>> for InvalidSensorType raised.
sanitize_sensors(sensors) ==
    LET cleaned == [i \in 1..Len(sensors) |-> CleanSensor(sensors[i])]
        at_least_one_unknown == \E i \in 1..Len(cleaned) : cleaned[i] \notin Range(Sensors)
    IN  IF sensors # <<"all">> /\ at_least_one_unknown THEN <<>> ELSE <<cleaned>>

\* The columns of the SELECT list, in order (lines 396-399).
SelectList(sensors, sensor_list) ==
    IF sensors = <<"all">> THEN <<"timestamp">> \o Sensors
    ELSE <<"timestamp">> \o sensor_list

\* columns.split(", "): the names handed to the renderers. A name is the
\* sequence of the comma-joined pieces it is made of.
ColumnNames(sensors, sensor_list) ==
    IF sensors = <<"all">> THEN [i \in 1..5 |-> <<(<<"timestamp">> \o Sensors)[i]>>]
    ELSE << <<"timestamp">>, sensor_list >>

\* One result row of SELECT <select list> for the stored row r.
Project(r, select) == [i \in 1..Len(select) |-> r[select[i]]]

\* The enumerations of the finite set S of stored rows that ascend in
\* timestamp; rows of equal timestamp come in any order (ORDER BY timestamp).
RECURSIVE Ascending(_)
Ascending(S) ==
    IF S = {} THEN {<<>>}
    ELSE UNION {{<<x>> \o rest : rest \in Ascending(S \ {x})} :
                  x \in {y \in S : \A z \in S : y.timestamp <= z.timestamp}}

\* datetime.fromisoformat(text): <<>> for ValueError, else the parsed value;
\* a text is [valid, wall, offset] with offset <<>> when it names no zone.
FromIsoFormat(text) == IF text.valid THEN <<[wall |-> text.wall, offset |-> text.offset]>> ELSE <<>>

\* Lines 386-392 and 411: a naive datetime is taken to be in the local zone;
\* the value is int(dt.astimezone(utc).timestamp()).
UtcSeconds(dt, zone) ==
    IF dt.offset = <<>> THEN dt.wall - TzOffset(zone) ELSE dt.wall - dt.offset[1]

\* Variant: the end of the window is exclusive.
InWindowExclusive(r, lo, hi) == r.timestamp >= lo /\ r.timestamp < hi

\* WHERE timestamp >= ? AND timestamp <= ?
InWindow(r, lo, hi) == r.timestamp >= lo /\ r.timestamp <= hi

\* Variant: rows[1::2], the rows at the odd positions.
EveryOtherOdd(rows) == [i \in 1..(Len(rows) \div 2) |-> rows[2 * i]]

\* rows[::2]
EveryOther(rows) == [i \in 1..((Len(rows) + 1) \div 2) |-> rows[2 * i - 1]]

\* Lines 422-429: the value returned for the rows left.
Render(column_names, rows, format, zone) ==
    IF format = "markdown"
    THEN [kind |-> "markdown", text |-> FormatMarkdown(column_names, rows, 1, zone)]
    ELSE [kind |-> "column_data", columns |-> column_names, rows |-> rows]

IdleQuery ==
    [pc |-> "idle", args |-> <<>>, rows |-> <<>>, columns |-> <<>>]

\* get_data_by_timerange(start_time, end_time, sensors, limit, format), lines
\* 376-416: parse, select, and enter the thinning loop unless it raised or
\* found no row.
GetDataByTimerange(start_time, end_time, sensors, limit, format) ==
    /\ LoopFree
    /\ LET args  == <<start_time, end_time, sensors, limit, format>>
           st    == FromIsoFormat(start_time)
           en    == FromIsoFormat(end_time)
           sl    == sanitize_sensors(sensors)
           lo    == UtcSeconds(st[1], mgr.local_timezone)
           hi    == UtcSeconds(en[1], mgr.local_timezone)
           found == {r \in store[mgr.db_path].rows : InWindow(r, lo, hi)}
           done(value) ==
               /\ ret' = Returned("get_data_by_timerange", args, value, <<>>)
               /\ UNCHANGED <<query, scan>>
       IN  IF st = <<>> \/ en = <<>>
           THEN done([kind |-> "raise", exc |-> "InvalidDateFormat"])
           ELSE IF sl = <<>>
           THEN done([kind |-> "raise", exc |-> "InvalidSensorType"])
           ELSE IF found = {}
           THEN done([kind |-> "None"])
           ELSE \E ordered \in Ascending(found) :
                   /\ query' = [pc |-> "thin", args |-> args,
                                rows |-> [i \in 1..Len(ordered) |->
                                            Project(ordered[i], SelectList(sensors, sl[1]))],
                                columns |-> ColumnNames(sensors, sl[1])]
                   /\ ret' = NoReturn
    /\ UNCHANGED <<now, log, store, mgr, cfg, disk, fetch, scan>>

\* One pass of the loop of lines 419-420: the test holds, every second row
\* is dropped.
ThinPass ==
    /\ query.pc = "thin"
    /\ Len(query.rows) > query.args[4]
    /\ query' = [query EXCEPT !.rows = EveryOther(query.rows)]
    /\ ret' = NoReturn
    /\ UNCHANGED <<now, log, store, mgr, cfg, disk, fetch, scan>>

\* The loop test fails: lines 422-429 render the rows and return.
ThinReturn ==
    /\ query.pc = "thin"
    /\ ~(Len(query.rows) > query.args[4])
    /\ ret' = Returned("get_data_by_timerange", query.args,
                       Render(query.columns, query.rows, query.args[5], mgr.local_timezone),
                       <<>>)
    /\ query' = IdleQuery
    /\ UNCHANGED <<now, log, store, mgr, cfg, disk, fetch, scan>>

\* get_recent_data(limit, sensors, format), lines 317-353. LIMIT with a
\* negative number is no limit.
RECURSIVE Descending(_)
Descending(S) ==
    IF S = {} THEN {<<>>}
    ELSE UNION {{<<x>> \o rest : rest \in Descending(S \ {x})} :
                  x \in {y \in S : \A z \in S : y.timestamp >= z.timestamp}}

\* Variant: the limit keeps the end of the list.
SqlLimitTail(rows, limit) ==
    IF limit < 0 \/ limit >= Len(rows) THEN rows
    ELSE SubSeq(rows, Len(rows) - limit + 1, Len(rows))

\* LIMIT ?
SqlLimit(rows, limit) ==
    IF limit < 0 \/ limit >= Len(rows) THEN rows ELSE SubSeq(rows, 1, limit)

GetRecentData(limit, sensors, format) ==
    /\ LoopFree
    /\ LET sl    == sanitize_sensors(sensors)
           found == {r \in store[mgr.db_path].rows : r.timestamp <= now}
           done(value) == ret' = Returned("get_recent_data", <<limit, sensors, format>>,
                                          value, <<>>)
       IN  IF sl = <<>>
           THEN done([kind |-> "raise", exc |-> "InvalidSensorType"])
           ELSE \E ordered \in Descending(found) :
                  LET taken == SqlLimit(ordered, limit)
                      rows  == [i \in 1..Len(taken) |->
                                   Project(taken[i], SelectList(sensors, sl[1]))]
                  IN  IF rows = <<>>
                      THEN done([kind |-> "None"])
                      ELSE done(Render(ColumnNames(sensors, sl[1]), rows, format,
                                       mgr.local_timezone))
    /\ UNCHANGED <<now, log, store, mgr, cfg, disk, fetch, query, scan>>

\* Aranet4Manager.get_last_timestamp(device_name) called on its own.
GetLastTimestamp(device_name) ==
    /\ LoopFree
    /\ ret' = Returned("get_last_timestamp", <<device_name>>,
                       get_last_timestamp(store[mgr.db_path].rows, device_name,
                                          mgr.local_timezone), <<>>)
    /\ UNCHANGED <<now, log, store, mgr, cfg, disk, fetch, query, scan>>

\* Variant without the test of line 181: on an empty table
\* datetime.fromtimestamp(None) raises and line 200 returns the error dict.
get_database_stats_unguarded(table, zone) ==
    LET device_list == {r.device : r \in table}
        ts          == {r.timestamp : r \in table}
    IN  IF ts = {}
        THEN [kind |-> "error"]
        ELSE [kind |-> "stats",
              total_measurements |-> Cardinality(table),
              beginning_date |->
                  <<IsoFormat(FromTimestamp(CHOOSE m \in ts : \A u \in ts : m <= u, zone))>>,
              most_recent_date |->
                  <<IsoFormat(FromTimestamp(CHOOSE m \in ts : \A u \in ts : u <= m, zone))>>,
              devices |-> [d \in device_list |-> Cardinality({r \in table : r.device = d})]]

\* get_database_stats (lines 156-199): a date is <<>> for "N/A".
get_database_stats(table, zone) ==
    LET device_list == {r.device : r \in table}
        ts          == {r.timestamp : r \in table}
        first_ts    == IF ts = {} THEN <<>> ELSE <<CHOOSE m \in ts : \A u \in ts : m <= u>>
        last_ts     == IF ts = {} THEN <<>> ELSE <<CHOOSE m \in ts : \A u \in ts : u <= m>>
        truthy(v)   == v # <<>> /\ v[1] # 0
        both        == truthy(first_ts) /\ truthy(last_ts)
    IN  [kind |-> "stats",
         total_measurements |-> Cardinality(table),
         beginning_date |-> IF both THEN <<IsoFormat(FromTimestamp(first_ts[1], zone))>> ELSE <<>>,
         most_recent_date |-> IF both THEN <<IsoFormat(FromTimestamp(last_ts[1], zone))>> ELSE <<>>,
         devices |-> [d \in device_list |-> Cardinality({r \in table : r.device = d})]]

\* json.dumps of the configuration dict (server.py lines 162 and 219): a str
\* is written as a JSON string, a bool as the literal true or false.
JsonDumps(config) ==
    [db_path      |-> [string |-> config.db_path],
     device_name  |-> [string |-> config.device_name],
     device_mac   |-> [string |-> config.device_mac],
     use_local_tz |-> IF DOMAIN config.use_local_tz = {"str"}
                      THEN [string |-> config.use_local_tz.str]
                      ELSE [literal |-> IF config.use_local_tz.bool THEN "true" ELSE "false"]]

\* The tool get_configuration_and_db_stats (server.py lines 160-166).
GetConfigurationAndDbStats ==
    /\ LoopFree
    /\ ret' = Returned("get_configuration_and_db_stats", <<>>,
                       [kind |-> "config_and_stats", config |-> JsonDumps(cfg),
                        stats |-> get_database_stats(store[mgr.db_path].rows,
                                                     mgr.local_timezone)], <<>>)
    /\ UNCHANGED <<now, log, store, mgr, cfg, disk, fetch, query, scan>>

\* The tool init_aranet4_config: a fixed text.
InitAranet4Config ==
    /\ LoopFree
    /\ ret' = Returned("init_aranet4_config", <<>>, [kind |-> "instructions"], <<>>)
    /\ UNCHANGED <<now, log, store, mgr, cfg, disk, fetch, query, scan>>

\* -------------------------------------------------- server tool handlers
\* The attributes an Aranet4Manager has: those __init__ and the setters
\* assign and the methods of the class.
ManagerAttributes ==
    {"sensor_plot_config", "device_name", "device_mac", "use_local_tz", "db_path",
     "_use_local_tz", "_db_path", "local_timezone", "_format_data_as_markdown",
     "sanitize_sensors", "scan_devices", "get_database_stats", "get_last_timestamp",
     "fetch_new_data", "get_recent_data", "get_data_by_timerange", "_generate_plot"}

\* aranet4manager.<name>: the attribute, or <<>> for AttributeError raised.
GetAttr(name) == IF name \in ManagerAttributes THEN <<name>> ELSE <<>>

\* An exception leaves the handler.
Raise(exc) == [kind |-> "raise", exc |-> exc]

\* The tool get_recent_data(limit, sensors, output_as_plot), server.py lines
\* 253-255: the manager has no validate_sensors, the lookup raises outside
\* any try and lines 256-276 are not reached.
ToolGetRecentData(limit, sensors, output_as_plot) ==
    /\ LoopFree
    /\ GetAttr("validate_sensors") = <<>>
    /\ ret' = Returned("server.get_recent_data", <<limit, sensors, output_as_plot>>,
                       Raise("AttributeError"), <<>>)
    /\ UNCHANGED <<now, log, store, mgr, cfg, disk, fetch, query, scan>>

\* The tool get_data_by_timerange(start_datetime, end_datetime, sensors,
\* limit, output_as_plot), server.py lines 307-308: the manager has no
\* list_sensors, the lookup raises before the try and lines 310-333 are not
\* reached.
ToolGetDataByTimerange(start_datetime, end_datetime, sensors, limit, output_as_plot) ==
    /\ LoopFree
    /\ GetAttr("list_sensors") = <<>>
    /\ ret' = Returned("server.get_data_by_timerange",
                       <<start_datetime, end_datetime, sensors, limit, output_as_plot>>,
                       Raise("AttributeError"), <<>>)
    /\ UNCHANGED <<now, log, store, mgr, cfg, disk, fetch, query, scan>>

\* The awaited read returns the history and the database cannot be opened or
\* written (lines 285-290 raise sqlite3.Error): nothing is committed, no try
\* encloses the statements in the manager or in the tool, the exception
\* leaves the handler.
InsertFails(t) ==
    /\ LoopFree
    /\ fetch[t].pc = "await"
    /\ ret' = Returned("fetch_new_data", <<fetch[t].num_retries>>,
                       Raise("sqlite3.Error"),
                       <<[mac |-> fetch[t].mac, filter |-> fetch[t].filter]>>)
    /\ fetch' = [fetch EXCEPT ![t] = IdleFetch]
    /\ UNCHANGED <<now, log, store, mgr, cfg, disk, query, scan>>

\* --------------------------------------------------------- scan_devices
\* heard: the advertisements the scanner has delivered to the callback so far.
IdleScan == [pc |-> "idle", discovered |-> {}, seen |-> 0, heard |-> <<>>]

\* Variant that keeps the newest advertisement of an address, with readings
\* or without.
on_device_found_newest(discovered, advertisement) ==
    {a \in discovered : a.address # advertisement.address} \cup {advertisement}

\* on_device_found (server.py lines 96-102) on the dict of advertisements by
\* address, held as the set of its values.
on_device_found(discovered, advertisement) ==
    IF ~(\E a \in discovered : a.address = advertisement.address)
    THEN discovered \cup {advertisement}
    ELSE IF advertisement.readings
         THEN {a \in discovered : a.address # advertisement.address} \cup {advertisement}
         ELSE discovered

\* scan_devices up to the sleep: the scanner is started.
ScanStart ==
    /\ LoopFree
    /\ scan.pc = "idle"
    /\ scan' = [IdleScan EXCEPT !.pc = "scanning"]
    /\ ret' = NoReturn
    /\ UNCHANGED <<now, log, store, mgr, cfg, disk, fetch, query>>

\* The scanner hears the next advertisement and calls back.
OnDeviceFound(address, readings) ==
    /\ LoopFree
    /\ scan.pc = "scanning"
    /\ scan.seen < MaxAdverts
    /\ scan' = [scan EXCEPT
                  !.seen = @ + 1,
                  !.heard = Append(@, [address |-> address, seq |-> scan.seen + 1,
                                       readings |-> readings]),
                  !.discovered = on_device_found(@,
                      [address |-> address, seq |-> scan.seen + 1, readings |-> readings])]
    /\ ret' = NoReturn
    /\ UNCHANGED <<now, log, store, mgr, cfg, disk, fetch, query>>

\* The sleep is over: the scanner is stopped and the listing returned.
ScanStop ==
    /\ LoopFree
    /\ scan.pc = "scanning"
    /\ ret' = Returned("scan_devices", <<>>,
                       IF scan.discovered = {} THEN [kind |-> "none_found"]
                       ELSE [kind |-> "listing", devices |-> scan.discovered],
                       <<scan.heard>>)
    /\ scan' = IdleScan
    /\ UNCHANGED <<now, log, store, mgr, cfg, disk, fetch, query>>

\* ---------------------------------------------------- set_configuration
\* The Python values use_local_tz takes: a bool or a str.
PyBool(b) == [bool |-> b]
PyStr(s) == [str |-> s]

\* value.strip().lower() (line 49) on the texts the calls supply.
StripLower(s) == IF s \in {"true", " True "} THEN "true" ELSE s

\* Variant that lowercases without stripping, as _load_cfg does (server.py
\* line 28).
ToBoolUnstripped(value) ==
    IF DOMAIN value = {"str"} THEN PyBool(value.str = "true") ELSE value

\* The value the use_local_tz setter keeps (lines 48-55): a str becomes the
\* bool that says whether it reads 'true', any other value is kept.
ToBool(value) ==
    IF DOMAIN value = {"str"} THEN PyBool(StripLower(value.str) = "true") ELSE value

\* The use_local_tz setter (lines 46-61): the zone the manager then uses.
LocalTimezone(use_local_tz) == IF use_local_tz = PyBool(TRUE) THEN "Local" ELSE "UTC"

\* Variant without the test of line 187.
NothingSuppliedUnchecked(db_path, device_name, device_mac, use_local_tz) == FALSE

\* Line 187: no argument was given.
NothingSupplied(db_path, device_name, device_mac, use_local_tz) ==
    db_path = <<>> /\ device_name = <<>> /\ device_mac = <<>> /\ use_local_tz = <<>>

\* Line 193: the local wall-clock second that names the backup file
\* config_bk/config_{timestamp}.yaml.
BackupName(t) == t + LocalOffset

\* Variant that opens the backup file for exclusive creation: a file of that
\* name is kept as it is.
WriteBackupExclusive(d, name, config) ==
    IF \E b \in d.backups : b.name = name
    THEN d
    ELSE [d EXCEPT !.backups = @ \cup {[name |-> name, content |-> config]}]

\* Lines 194-197: the backup file is opened for writing, which replaces a
\* file of that name, and the configuration dumped into it.
WriteBackup(d, name, config) ==
    [d EXCEPT !.backups = {b \in @ : b.name # name} \cup {[name |-> name, content |-> config]}]

\* Lines 212-213: config.yaml is overwritten with the configuration.
WriteConfig(d, config) == [d EXCEPT !.yaml = config]

\* Variant that rebuilds the dict from the supplied arguments and the
\* defaults instead of updating it.
MergeReset(config, db_path, device_name, device_mac, use_local_tz) ==
    [db_path      |-> IF db_path # <<>> THEN db_path[1] ELSE "p1",
     device_name  |-> IF device_name # <<>> THEN device_name[1] ELSE "kitchen",
     device_mac   |-> IF device_mac # <<>> THEN device_mac[1] ELSE "m1",
     use_local_tz |-> IF use_local_tz # <<>> THEN use_local_tz[1] ELSE PyBool(TRUE)]

\* Lines 199-209: the dict after the assignments config[field] = value of the
\* arguments that are not None.
Merge(config, db_path, device_name, device_mac, use_local_tz) ==
    [db_path      |-> IF db_path # <<>> THEN db_path[1] ELSE config.db_path,
     device_name  |-> IF device_name # <<>> THEN device_name[1] ELSE config.device_name,
     device_mac   |-> IF device_mac # <<>> THEN device_mac[1] ELSE config.device_mac,
     use_local_tz |-> IF use_local_tz # <<>> THEN use_local_tz[1] ELSE config.use_local_tz]

\* set_configuration(db_path, device_name, device_mac, use_local_tz): each
\* argument is None (<<>>) or a value (<<v>>).
SetConfiguration(db_path, device_name, device_mac, use_local_tz) ==
    /\ LoopFree
    /\ UNCHANGED <<query, scan>>
    /\ IF NothingSupplied(db_path, device_name, device_mac, use_local_tz)
       THEN /\ ret' = Returned("set_configuration",
                               <<db_path, device_name, device_mac, use_local_tz>>,
                               [kind |-> "rejected"], <<>>)
            /\ UNCHANGED <<now, log, store, mgr, cfg, disk, fetch>>
       ELSE LET pick(arg, old) == IF arg # <<>> THEN arg[1] ELSE old
             tz == IF use_local_tz # <<>> THEN ToBool(use_local_tz[1]) ELSE mgr.use_local_tz
             backed == WriteBackup(disk, BackupName(now), cfg)
         IN  /\ cfg' = Merge(cfg, db_path, device_name, device_mac, use_local_tz)
             /\ mgr' = [db_path      |-> pick(db_path, mgr.db_path),
                        device_name  |-> pick(device_name, mgr.device_name),
                        device_mac   |-> pick(device_mac, mgr.device_mac),
                        use_local_tz |-> tz,
                        local_timezone |-> IF use_local_tz # <<>>
                                           THEN LocalTimezone(tz)
                                           ELSE mgr.local_timezone]
             /\ disk' = WriteConfig(backed, cfg')
             /\ ret' = Returned("set_configuration",
                                 <<db_path, device_name, device_mac, use_local_tz>>,
                                 [kind |-> "updated", config |-> JsonDumps(cfg')], <<>>)
             /\ store' = IF db_path # <<>>
                          THEN [store EXCEPT ![db_path[1]] = CreateTableIfNotExists(@)]
                          ELSE store
             /\ UNCHANGED <<now, log, fetch>>

\* set_configuration with a db_path that sqlite3.connect cannot open (line 201
\* into the db_path setter, aranet.py lines 67-70): the backup is written,
\* the dict and the manager's _db_path hold the new path, the exception leaves
\* the handler before lines 202-213.
SetConfigurationDbFails(db_path, device_name, device_mac, use_local_tz) ==
    /\ LoopFree
    /\ db_path # <<>>
    /\ disk' = WriteBackup(disk, BackupName(now), cfg)
    /\ cfg' = [cfg EXCEPT !.db_path = db_path[1]]
    /\ mgr' = [mgr EXCEPT !.db_path = db_path[1]]
    /\ ret' = Returned("set_configuration",
                       <<db_path, device_name, device_mac, use_local_tz>>,
                       Raise("sqlite3.OperationalError"), <<>>)
    /\ UNCHANGED <<now, log, store, fetch, query, scan>>

\* ---------------------------------------------------------------- clock
\* A second passes; every device records the sample of the new second.
Tick ==
    /\ LoopFree
    /\ now < MaxTime
    /\ now' = now + 1
    /\ \E c \in Samples :
          log' = [m \in Macs |-> log[m] \cup {Entry(now + 1, c[m])}]
    /\ ret' = NoReturn
    /\ UNCHANGED <<store, mgr, cfg, disk, fetch, query, scan>>

\* -------------------------------------------------------- specification
Opt(S) == {<<>>} \cup {<<v>> : v \in S}

\* The server has loaded config.yaml (_load_cfg) and built the manager from
\* it; no backup has been written yet.
Init ==
    /\ now = 0
    /\ \E c \in Samples : log = [m \in Macs |-> {Entry(0, c[m])}]
    /\ store = [p \in Paths |-> [exists |-> p = "p1", rows |-> {}]]
    /\ cfg = [db_path |-> "p1", device_name |-> "kitchen", device_mac |-> "m1",
              use_local_tz |-> PyBool(TRUE)]
    /\ mgr = [db_path |-> "p1", device_name |-> "kitchen", device_mac |-> "m1",
              use_local_tz |-> PyBool(TRUE), local_timezone |-> "Local"]
    /\ disk = [yaml |-> cfg, backups |-> {}]
    /\ fetch = [t \in Tasks |-> IdleFetch]
    /\ query = IdleQuery
    /\ scan = IdleScan
    /\ ret = NoReturn

\* Ingestion under configuration changes: one fetch at a time, the device
\* name reconfigured at any moment, also while a read is awaited.
Next ==
    \/ Tick
    \/ \E n \in 0..1 : FetchStart("t1", n)
    \/ \E e \in Errors : AttemptFail("t1", e)
    \/ AttemptOk("t1")
    \/ \E d \in Opt(Names) : SetConfiguration(<<>>, d, <<>>, <<>>)

Spec == Init /\ [][Next]_vars

\* The retry loop: every number of retries, the address reconfigured once
\* between attempts.
NextRetry ==
    \/ Tick
    \/ \E n \in 0..MaxRetries : FetchStart("t1", n)
    \/ \E e \in Errors : AttemptFail("t1", e)
    \/ AttemptOk("t1")
    \/ /\ fetch["t1"].pc = "await"
       /\ mgr.device_mac = "m1"
       /\ SetConfiguration(<<>>, <<>>, <<"m2">>, <<>>)

SpecRetry == Init /\ [][NextRetry]_vars

\* Every tool of the server, one invocation after the other, one database
\* switched for another and back between them.
UtcText(w) == [valid |-> TRUE, wall |-> w, offset |-> <<0>>]

NextTools ==
    \/ Tick
    \/ \E e \in Errors : AttemptFail("t1", e)
    \/ AttemptOk("t1")
    \/ \E r \in BOOLEAN : OnDeviceFound("m1", r)
    \/ ScanStop
    \/ ThinPass
    \/ ThinReturn
    \/ /\ fetch["t1"].pc = "idle" /\ scan.pc = "idle"
       /\ \/ FetchStart("t1", 1)
          \/ ScanStart
          \/ \E p \in Opt(Paths) : SetConfiguration(p, <<>>, <<>>, <<>>)
          \/ \E d \in Names : GetLastTimestamp(d)
          \/ GetRecentData(1, <<"all">>, "markdown")
          \/ GetDataByTimerange(UtcText(0), UtcText(MaxTime), <<"all">>, 1, "markdown")
          \/ GetConfigurationAndDbStats
          \/ InitAranet4Config

SpecTools == Init /\ [][NextTools]_vars

\* The calls of set_configuration: with no argument, with one, with some and
\* with all of them, use_local_tz as a bool or a str.
ConfigCalls ==
    {<<<<>>, <<>>, <<>>, <<>>>>,
     <<<<>>, <<>>, <<>>, <<PyStr(" True ")>>>>,
     <<<<>>, <<"camera">>, <<>>, <<PyBool(FALSE)>>>>,
     <<<<"p2">>, <<"camera">>, <<"m2">>, <<PyStr("yes")>>>>}

\* The server has started with DEVICE_NAME set in its environment: _load_cfg
\* (server.py lines 24-29) lets it override the device_name of config.yaml,
\* which may name another device.
InitConfig ==
    /\ now = 0
    /\ \E c \in Samples : log = [m \in Macs |-> {Entry(0, c[m])}]
    /\ store = [p \in Paths |-> [exists |-> p = "p1", rows |-> {}]]
    /\ cfg = [db_path |-> "p1", device_name |-> "kitchen", device_mac |-> "m1",
              use_local_tz |-> PyBool(TRUE)]
    /\ mgr = [db_path |-> "p1", device_name |-> "kitchen", device_mac |-> "m1",
              use_local_tz |-> PyBool(TRUE), local_timezone |-> "Local"]
    /\ \E d \in Names : disk = [yaml |-> [cfg EXCEPT !.device_name = d], backups |-> {}]
    /\ fetch = [t \in Tasks |-> IdleFetch]
    /\ query = IdleQuery
    /\ scan = IdleScan
    /\ ret = NoReturn

\* The configuration tools on their own: set_configuration with the database
\* openable or not, and the get tool, while the clock runs.
NextConfig ==
    \/ Tick
    \/ \E c \in ConfigCalls : SetConfiguration(c[1], c[2], c[3], c[4])
    \/ \E c \in ConfigCalls : SetConfigurationDbFails(c[1], c[2], c[3], c[4])
    \/ GetConfigurationAndDbStats

SpecConfig == InitConfig /\ [][NextConfig]_vars

\* A scan on its own: every sequence of advertisements of the devices in
\* range, with readings or without, while the clock runs.
NextScan ==
    \/ Tick
    \/ ScanStart
    \/ \E a \in Macs, r \in BOOLEAN : OnDeviceFound(a, r)
    \/ ScanStop

SpecScan == Init /\ [][NextScan]_vars

\* Two fetch_new_data invocations whose executions interleave at the awaited
\* read, the configuration left alone.
NextTwoFetches ==
    \/ Tick
    \/ \E t \in Tasks : FetchStart(t, 1)
    \/ \E t \in Tasks, e \in Errors : AttemptFail(t, e)
    \/ \E t \in Tasks : AttemptOk(t)

SpecTwoFetches == Init /\ [][NextTwoFetches]_vars

\* Queries over a store drawn from the tables ingestion can leave behind:
\* per (device, timestamp) at most one row, no negative CO2.
StoredRow(d, ts, c) == RowOf(BuildData(<<Entry(ts, c)>>, d)[1])

Tables ==
    SUBSET ({StoredRow("kitchen", ts, 400) : ts \in 0..MaxTime}
                \cup {StoredRow("camera", ts, 420) : ts \in 0..MaxTime})

Texts ==
    {[valid |-> FALSE, wall |-> 0, offset |-> <<>>]}
        \cup {[valid |-> TRUE, wall |-> w, offset |-> o] :
                w \in 0..MaxTime, o \in {<<>>, <<0>>}}

Selectors == {<<"all">>, <<"co2">>, <<"temperature", "CO2">>, <<"ozone">>}

InitQuery ==
    /\ now = MaxTime
    /\ log = [m \in Macs |-> {}]
    /\ \E t \in Tables :
          store = [p \in Paths |-> [exists |-> p = "p1", rows |-> IF p = "p1" THEN t ELSE {}]]
    /\ cfg = [db_path |-> "p1", device_name |-> "kitchen", device_mac |-> "m1",
              use_local_tz |-> PyBool(TRUE)]
    /\ mgr = [db_path |-> "p1", device_name |-> "kitchen", device_mac |-> "m1",
              use_local_tz |-> PyBool(TRUE), local_timezone |-> "Local"]
    /\ disk = [yaml |-> cfg, backups |-> {}]
    /\ fetch = [t \in Tasks |-> IdleFetch]
    /\ query = IdleQuery
    /\ scan = IdleScan
    /\ ret = NoReturn

\* One query per behaviour: a query changes nothing a later query reads.
NextQuery ==
    \/ /\ ret = NoReturn
       /\ \E s, e \in Texts, sel \in Selectors, l \in -1..MaxLimit,
             f \in {"column_data", "markdown"} : GetDataByTimerange(s, e, sel, l, f)
    \/ ThinPass
    \/ ThinReturn

SpecQuery == InitQuery /\ [][NextQuery]_vars

\* The thinning loop on its own: a time-range query of the manager has
\* selected the n rows of its window (line 413), for every n up to ManyRows,
\* and enters the loop with a ceiling of at least one.
ThinLimits == {1, MaxLimit, DefaultLimit}

InitThin ==
    /\ now = MaxTime
    /\ log = [m \in Macs |-> {}]
    /\ cfg = [db_path |-> "p1", device_name |-> "kitchen", device_mac |-> "m1",
              use_local_tz |-> PyBool(TRUE)]
    /\ mgr = [db_path |-> "p1", device_name |-> "kitchen", device_mac |-> "m1",
              use_local_tz |-> PyBool(TRUE), local_timezone |-> "Local"]
    /\ disk = [yaml |-> cfg, backups |-> {}]
    /\ fetch = [t \in Tasks |-> IdleFetch]
    /\ scan = IdleScan
    /\ ret = NoReturn
    /\ \E n \in 1..ManyRows, limit \in ThinLimits :
          /\ store = [p \in Paths |->
                        [exists |-> p = "p1",
                         rows   |-> IF p = "p1"
                                    THEN {StoredRow("kitchen", ts, 400) : ts \in 1..n}
                                    ELSE {}]]
          /\ query = [pc |-> "thin",
                      args |-> <<UtcText(1), UtcText(n), <<"all">>, limit, "column_data">>,
                      rows |-> [ts \in 1..n |->
                                  Project(StoredRow("kitchen", ts, 400),
                                          SelectList(<<"all">>, Sensors))],
                      columns |-> ColumnNames(<<"all">>, Sensors)]

NextThin ==
    \/ ThinPass
    \/ ThinReturn

SpecThin == InitThin /\ [][NextThin]_vars

\* Recent-data queries of the manager at any time of the clock, over a store
\* that may hold rows dated after now.
RecentTables ==
    SUBSET ({StoredRow("kitchen", ts, 400) : ts \in 0..(MaxTime + 1)}
                \cup {StoredRow("camera", ts, 420) : ts \in 0..(MaxTime + 1)})

InitRecent ==
    /\ now \in 0..MaxTime
    /\ log = [m \in Macs |-> {}]
    /\ \E t \in RecentTables :
          store = [p \in Paths |-> [exists |-> p = "p1", rows |-> IF p = "p1" THEN t ELSE {}]]
    /\ cfg = [db_path |-> "p1", device_name |-> "kitchen", device_mac |-> "m1",
              use_local_tz |-> PyBool(TRUE)]
    /\ mgr = [db_path |-> "p1", device_name |-> "kitchen", device_mac |-> "m1",
              use_local_tz |-> PyBool(TRUE), local_timezone |-> "Local"]
    /\ disk = [yaml |-> cfg, backups |-> {}]
    /\ fetch = [t \in Tasks |-> IdleFetch]
    /\ query = IdleQuery
    /\ scan = IdleScan
    /\ ret = NoReturn

\* One query per behaviour: a query changes nothing a later query reads.
NextRecent ==
    /\ ret = NoReturn
    /\ \E l \in -1..MaxLimit, sel \in Selectors, f \in {"column_data", "markdown"} :
          GetRecentData(l, sel, f)

SpecRecent == InitRecent /\ [][NextRecent]_vars

\* The tool handlers of the server for ingestion and queries: the fetch tool
\* calls the manager with its default retries; the storage can fail.
NextHandlers ==
    \/ Tick
    \/ FetchStart("t1", DefaultRetries)
    \/ \E e \in Errors : AttemptFail("t1", e)
    \/ AttemptOk("t1")
    \/ InsertFails("t1")
    \/ \E sel \in Selectors, plot \in BOOLEAN :
          ToolGetRecentData(MaxLimit, sel, plot)
    \/ \E s, e \in Texts, sel \in Selectors :
          ToolGetDataByTimerange(s, e, sel, DefaultLimit, FALSE)

SpecHandlers == Init /\ [][NextHandlers]_vars

\* ================================================================ claims
Rows(p) == store[p].rows

SameKey(r1, r2) == r1.device = r2.device /\ r1.timestamp = r2.timestamp

FetchReturned(r) == r.tool = "fetch_new_data" /\ r.value.kind = "fetched"

FetchFailed(r) == r.tool = "fetch_new_data" /\ r.value.kind = "fetch_failed"

\* The records of the device at mac that lie in the window of filter.
WindowOf(mac, filter) ==
    {e \in log[mac] : /\ filter.start # <<>> => filter.start[1].inst <= e.date
                      /\ e.date <= filter.end.inst}

\* The timestamp column of a rendered line, as the renderer writes ts.
Shown(ts) == IsoFormat(FromTimestamp(ts, mgr.local_timezone))

\* C1: after every step each table holds at most one row per (device,
\* timestamp), and a row whose pair was stored before the step is the row that
\* was stored: inserting an existing pair changes nothing.
C1_IdempotentInsert ==
    [][\A p \in Paths :
          /\ \A r1, r2 \in store'[p].rows : SameKey(r1, r2) => r1 = r2
          /\ \A r \in store[p].rows : \A r2 \in store'[p].rows :
                SameKey(r, r2) => r2 = r]_vars

\* A fetch has returned an entry whose pair was stored with other values.
C1_Witness ==
    /\ FetchReturned(ret)
    /\ \E i \in 1..Len(ret.value.table.lines) : \E r \in Rows(mgr.db_path) :
          LET line == ret.value.table.lines[i]
          IN  r.device = line[1] /\ Shown(r.timestamp) = line[2] /\ r.CO2 # line[6]

\* C2: no stored row has a negative CO2.
C2_NoNegativeCo2 == \A p \in Paths : \A r \in Rows(p) : r.CO2 >= 0

\* A fetch has returned whose window held an entry with negative CO2.
C2_Witness ==
    /\ FetchReturned(ret)
    /\ \E e \in WindowOf(ret.read[1].mac, ret.read[1].filter) : e.co2 < 0
    /\ Rows(mgr.db_path) # {}

\* C3: when a fetch has returned and every row stored under the configured
\* name is a record of the device that was read, every record of that device
\* with CO2 >= 0 dated up to the end of the window read is stored under the
\* configured name.
C3_NothingMissed ==
    (/\ FetchReturned(ret)
     /\ \A r \in Rows(mgr.db_path) :
           r.device = mgr.device_name =>
              \E e \in log[ret.read[1].mac] : e.date = r.timestamp /\ e.co2 = r.CO2)
    => \A e \in log[ret.read[1].mac] :
          (e.co2 >= 0 /\ e.date <= ret.read[1].filter.end.inst) =>
             \E r \in Rows(mgr.db_path) :
                r.device = mgr.device_name /\ r.timestamp = e.date

\* C4: get_last_timestamp(device) is none when the device has no row, and
\* else the greatest timestamp among the rows of that device alone.
C4_LastTimestamp ==
    \A p \in Paths : \A d \in Names :
        LET v   == get_last_timestamp(Rows(p), d, mgr.local_timezone)
            own == {r \in Rows(p) : r.device = d}
        IN  IF own = {} THEN v = <<>>
            ELSE /\ v # <<>>
                 /\ \E r \in own : r.timestamp = v[1].inst
                 /\ \A r \in own : r.timestamp <= v[1].inst

\* A fetch waits on a window that starts at the watermark of its device while
\* the other device has a later row.
C4_Witness ==
    /\ fetch["t1"].pc = "await"
    /\ fetch["t1"].filter.start # <<>>
    /\ fetch["t1"].filter.start =
          get_last_timestamp(Rows(mgr.db_path), mgr.device_name, mgr.local_timezone)
    /\ \E r \in Rows(mgr.db_path) :
          r.device # mgr.device_name /\ r.timestamp > fetch["t1"].filter.start[1].inst

\* C5: a fetch issues at most num_retries reads; while a read is awaited the
\* errors are those of the reads before it, in order; a failure report holds
\* one error per read, in order; after a read that succeeds none is in flight.
C5_BoundedRetries ==
    /\ \A t \in Tasks :
          fetch[t].pc = "await" =>
             /\ fetch[t].calls <= fetch[t].num_retries
             /\ Len(fetch[t].errors) = fetch[t].calls - 1
             /\ \A i \in 1..Len(fetch[t].errors) : fetch[t].errors[i].call = i
    /\ FetchFailed(ret) =>
          /\ Len(ret.value.errors) = ret.args[1]
          /\ \A i \in 1..Len(ret.value.errors) : ret.value.errors[i].call = i
    /\ FetchReturned(ret) => fetch["t1"].pc = "idle"

\* A fetch has failed after two reads or more.
C5_Witness == FetchFailed(ret) /\ Len(ret.value.errors) >= 2

\* C6: a step of a fetch that does not return data leaves the store as it
\* was; the failure report names the configured device and address, the range
\* from the watermark (or the beginning) to a time not after now, and one
\* error per attempt.
C6_FailureReport ==
    [][/\ (fetch' # fetch /\ ~FetchReturned(ret')) => store' = store
       /\ FetchFailed(ret') =>
             LET last == get_last_timestamp(store'[mgr'.db_path].rows, mgr'.device_name,
                                            mgr'.local_timezone)
             IN  /\ ret'.value.device = mgr'.device_name
                 /\ ret'.value.mac = mgr'.device_mac
                 /\ ret'.value.range_start =
                       (IF last = <<>> THEN <<>> ELSE <<IsoFormat(last[1])>>)
                 /\ ret'.value.range_end.wall - ret'.value.range_end.off \in 0..now'
                 /\ Len(ret'.value.errors) = ret'.args[1]]_vars

\* A fetch has failed after an attempt, on a store that holds rows.
C6_Witness ==
    /\ FetchFailed(ret)
    /\ Len(ret.value.errors) >= 1
    /\ Rows(mgr.db_path) # {}

\* C7 as stated: the count of a successful fetch is the number of rows the
\* store gained in the step that returned it.
C7_CountIsRowsGained ==
    [][FetchReturned(ret') =>
          ret'.value.count =
             Cardinality(store'[mgr.db_path].rows) - Cardinality(store[mgr.db_path].rows)]_vars

\* C7 as amended: the count and the table of a successful fetch are the
\* records with CO2 >= 0 of the window read, stored before or not.
C7_CountIsEntriesReturned ==
    FetchReturned(ret) =>
        LET valid == {e \in WindowOf(ret.read[1].mac, ret.read[1].filter) : e.co2 >= 0}
            lines == ret.value.table.lines
        IN  /\ ret.value.count = Cardinality(valid)
            /\ Len(lines) = Cardinality(valid)
            /\ \A e \in valid : \E i \in 1..Len(lines) :
                  /\ lines[i][1] = mgr.device_name
                  /\ lines[i][2] = Shown(e.date)
                  /\ lines[i][6] = e.co2

\* A fetch has returned a table that lists the entry at its watermark again.
C7_Witness ==
    /\ FetchReturned(ret)
    /\ ret.value.range_start # <<>>
    /\ \E i \in 1..Len(ret.value.table.lines) :
          ret.value.table.lines[i][2] = ret.value.range_start[1]

\* C8: every row present before a step is present unchanged after it, and a
\* step that changes the rows of a table is the return of a fetch.
C8_RowsOnlyAdded ==
    [][/\ \A p \in Paths : \A r \in store[p].rows : r \in store'[p].rows
       /\ (\E p \in Paths : store'[p].rows # store[p].rows) =>
             ret'.tool = "fetch_new_data"]_vars

\* set_configuration has opened a database that already holds rows.
C8_Witness ==
    /\ ret.tool = "set_configuration"
    /\ ret.value.kind = "updated"
    /\ ret.args[1] # <<>>
    /\ Rows(mgr.db_path) # {}

\* The window of a returned time-range query, in UTC seconds.
QueryLo(r) == UtcSeconds(FromIsoFormat(r.args[1])[1], mgr.local_timezone)

QueryHi(r) == UtcSeconds(FromIsoFormat(r.args[2])[1], mgr.local_timezone)

RowsReturned(r) == r.tool = "get_data_by_timerange" /\ r.value.kind = "column_data"

\* C9: the rows get_data_by_timerange returns have lo <= timestamp <= hi,
\* ascend in timestamp, and are all the stored rows of the window when these
\* are no more than the limit.
C9_TimerangeRows ==
    RowsReturned(ret) =>
        LET rows  == ret.value.rows
            lo    == QueryLo(ret)
            hi    == QueryHi(ret)
            inWin == {r \in Rows(mgr.db_path) : lo <= r.timestamp /\ r.timestamp <= hi}
        IN  /\ \A i \in 1..Len(rows) : lo <= rows[i][1] /\ rows[i][1] <= hi
            /\ \A i, j \in 1..Len(rows) : i < j => rows[i][1] <= rows[j][1]
            /\ Cardinality(inWin) <= ret.args[4] =>
                  /\ Len(rows) = Cardinality(inWin)
                  /\ \A r \in inWin : \E i \in 1..Len(rows) :
                        rows[i][1] = r.timestamp /\ rows[i][Len(rows[i])] = r.CO2

\* A query has returned all rows of a window that ends on a stored timestamp
\* and leaves a stored row out.
C9_Witness ==
    /\ RowsReturned(ret)
    /\ Len(ret.value.rows) >= 2
    /\ Len(ret.value.rows) <= ret.args[4]
    /\ \E r \in Rows(mgr.db_path) : r.timestamp = QueryHi(ret)
    /\ \E r \in Rows(mgr.db_path) : r.timestamp < QueryLo(ret)

\* C10: the thinning loop terminates, with at most limit rows: a pass that
\* the loop takes leaves fewer rows than it found, and the rows returned are
\* no more than the limit.
C10_ThinningTerminates ==
    /\ (query.pc = "thin" /\ Len(query.rows) > query.args[4]) =>
          Len(EveryOther(query.rows)) < Len(query.rows)
    /\ RowsReturned(ret) => Len(ret.value.rows) <= ret.args[4]

\* ceil(n / d)
CeilDiv(n, d) == (n + d - 1) \div d

RECURSIVE Pow2(_)
Pow2(k) == IF k = 0 THEN 1 ELSE 2 * Pow2(k - 1)

\* rows is what k passes leave of the n rows with timestamps 1..n, in their
\* order, and each of the k passes found more rows than limit.
AfterPasses(rows, n, limit, k) ==
    /\ Len(rows) = CeilDiv(n, Pow2(k))
    /\ \A i \in 1..Len(rows) : rows[i][1] = (i - 1) * Pow2(k) + 1
    /\ \A j \in 0..(k - 1) : CeilDiv(n, Pow2(j)) > limit

\* C11: in the loop and at its return the rows are those at the positions
\* 0, 2^k, 2*2^k, ... of the window's ascending list for the number k of
\* passes taken, ceil(n/2^k) of them, the earliest row first; a pass is taken
\* only while the count exceeds the limit, the rows returned are no more than
\* the limit, and 401 rows with limit 100 are returned as 51.
C11_ThinningHalves ==
    LET n == Cardinality(Rows(mgr.db_path))
    IN  /\ query.pc = "thin" =>
              \E k \in 0..9 : AfterPasses(query.rows, n, query.args[4], k)
        /\ RowsReturned(ret) =>
              /\ \E k \in 0..9 : AfterPasses(ret.value.rows, n, ret.args[4], k)
              /\ Len(ret.value.rows) <= ret.args[4]
              /\ (n = 401 /\ ret.args[4] = 100) => Len(ret.value.rows) = 51

\* 401 rows with limit 100 have been returned as 51 rows.
C11_Witness ==
    /\ RowsReturned(ret)
    /\ Cardinality(Rows(mgr.db_path)) = 401
    /\ ret.args[4] = 100
    /\ Len(ret.value.rows) = 51
    /\ ret.value.rows[1][1] = 1

\* The rows a returned get_recent_data call of the manager handed back as
\* column data; None is no row.
RecentReturned(r) ==
    /\ r.tool = "get_recent_data"
    /\ r.args[3] = "column_data"
    /\ r.value.kind \in {"column_data", "None"}

RecentRows(r) == IF r.value.kind = "None" THEN <<>> ELSE r.value.rows

\* C12: get_recent_data with limit L >= 0 returns min(L, n) rows of the n
\* stored rows dated up to now, newest first, none of them older than a row
\* it leaves out, and no row dated after now.
C12_RecentRows ==
    (RecentReturned(ret) /\ ret.args[1] >= 0) =>
        LET rows == RecentRows(ret)
            elig == {r \in Rows(mgr.db_path) : r.timestamp <= now}
            n    == Cardinality(elig)
            has(r) == \E i \in 1..Len(rows) :
                         rows[i][1] = r.timestamp /\ rows[i][Len(rows[i])] = r.CO2
        IN  /\ Len(rows) = IF ret.args[1] <= n THEN ret.args[1] ELSE n
            /\ \A i \in 1..Len(rows) :
                  /\ rows[i][1] <= now
                  /\ \E r \in elig : rows[i][1] = r.timestamp /\ rows[i][Len(rows[i])] = r.CO2
            /\ \A i, j \in 1..Len(rows) : i < j => rows[i][1] >= rows[j][1]
            /\ \A r \in elig : has(r) \/ \A i \in 1..Len(rows) : rows[i][1] >= r.timestamp

\* A call returned as many rows as its limit, leaving out an older row, on a
\* store that holds a row dated after now.
C12_Witness ==
    /\ RecentReturned(ret)
    /\ ret.args[1] >= 1
    /\ Len(RecentRows(ret)) = ret.args[1]
    /\ \E r \in Rows(mgr.db_path) : r.timestamp > now
    /\ \E r \in Rows(mgr.db_path) :
          r.timestamp < RecentRows(ret)[Len(RecentRows(ret))][1]

\* C13: the rows a query returns are rows stored under the configured
\* device name.
C13_ConfiguredDeviceOnly ==
    LET own(row) == \E r \in Rows(mgr.db_path) :
                       /\ r.device = mgr.device_name
                       /\ r.timestamp = row[1]
                       /\ r.CO2 = row[Len(row)]
    IN  /\ RecentReturned(ret) =>
              \A i \in 1..Len(RecentRows(ret)) : own(RecentRows(ret)[i])
        /\ RowsReturned(ret) =>
              \A i \in 1..Len(ret.value.rows) : own(ret.value.rows[i])

\* A selector names a sensor outside the fixed set and is not "all".
InvalidSelector(sensors) == sanitize_sensors(sensors) = <<>>

\* C14: a query tool called with an invalid selector returns the
\* invalid-sensor message; no exception leaves the handler.
C14_InvalidSensorReported ==
    /\ (ret.tool = "server.get_recent_data" /\ InvalidSelector(ret.args[2])) =>
          ret.value.kind = "invalid_sensor"
    /\ (ret.tool = "server.get_data_by_timerange" /\ InvalidSelector(ret.args[3])) =>
          ret.value.kind = "invalid_sensor"

\* C15: the time-range tool called with a start or end text that does not
\* parse returns a parse-error report, which is not the no-rows report.
C15_ParseErrorReported ==
    (/\ ret.tool = "server.get_data_by_timerange"
     /\ FromIsoFormat(ret.args[1]) = <<>> \/ FromIsoFormat(ret.args[2]) = <<>>)
    => ret.value.kind \in {"invalid_datetime", "error_retrieving"}

\* C16: an ingestion tool invocation returns a string, whatever the storage
\* does: no exception leaves the handler.
C16_StorageFailureReported ==
    ret.tool = "fetch_new_data" => ret.value.kind # "raise"

\* The invocations suspended at an await: fetches awaiting the device, a scan
\* in its sleep.
Suspended ==
    {t \in Tasks : fetch[t].pc = "await"} \cup (IF scan.pc = "scanning" THEN {"scan"} ELSE {})

\* C17: at most one invocation is suspended, and while one is, no tool
\* invocation has just returned and none is inside a query: the steps taken
\* meanwhile are its own.
C17_RunToCompletion ==
    /\ Cardinality(Suspended) <= 1
    /\ Suspended # {} => (ret.tool = "none" /\ query.pc = "idle")

\* set_configuration has just returned its report of the new configuration.
Accepted == ret.tool = "set_configuration" /\ ret.value.kind = "updated"

\* set_configuration has just refused the call.
Rejected == ret.tool = "set_configuration" /\ ret.value.kind = "rejected"

\* C18: a set_configuration call with no arguments is refused and changes
\* nothing: the configuration dict, the manager, config.yaml and the backup
\* directory are as before, and so are the databases.
C18_NoArgumentsRejected ==
    [][(ret'.tool = "set_configuration" /\ ret'.args = <<<<>>, <<>>, <<>>, <<>>>>) =>
          /\ ret'.value.kind = "rejected"
          /\ cfg' = cfg
          /\ mgr' = mgr
          /\ disk' = disk
          /\ store' = store]_vars

C18_Witness ==
    /\ Rejected
    /\ ret.args = <<<<>>, <<>>, <<>>, <<>>>>
    /\ disk.backups # {}

\* C19: every set_configuration call that is not refused leaves a backup
\* file named by the second of the call that holds the configuration exactly
\* as it was before the call, whatever the call changed; when the call fails
\* at the database, the backup is there and config.yaml is not yet rewritten.
C19_BackupBeforeChange ==
    [][(ret'.tool = "set_configuration" /\ ret'.value.kind \in {"updated", "raise"}) =>
          /\ [name |-> BackupName(now), content |-> cfg] \in disk'.backups
          /\ \A b \in disk'.backups : b.name # BackupName(now) => b \in disk.backups
          /\ ret'.value.kind = "updated" => disk'.yaml = cfg'
          /\ ret'.value.kind = "raise" => disk'.yaml = disk.yaml]_vars

C19_Witness ==
    /\ Accepted
    /\ \E b \in disk.backups : b.name = BackupName(now) /\ b.content # cfg
    /\ \E b \in disk.backups : b.name # BackupName(now)
    /\ disk.yaml = cfg

\* Does the supplied use_local_tz read true: the bool True, or a text that is
\* 'true' once stripped and lowercased.
ReadsTrue(value) == value \in {PyBool(TRUE), PyStr("true"), PyStr(" True ")}

ConfigFields == <<"db_path", "device_name", "device_mac", "use_local_tz">>

\* C21 as stated: a field the call does not supply keeps its prior value in
\* the dict, in config.yaml and in the manager, and no other operation
\* changes the configuration.
C21_UnsuppliedKeptInFile ==
    [][/\ (ret'.tool = "set_configuration" /\ ret'.value.kind = "updated") =>
             \A i \in 1..4 :
                ret'.args[i] = <<>> =>
                   /\ cfg'[ConfigFields[i]] = cfg[ConfigFields[i]]
                   /\ mgr'[ConfigFields[i]] = mgr[ConfigFields[i]]
                   /\ disk'.yaml[ConfigFields[i]] = disk.yaml[ConfigFields[i]]
       /\ ret'.tool # "set_configuration" => (cfg' = cfg /\ disk' = disk)]_vars

\* C21: a field the call does not supply keeps its prior value in the dict
\* and in the manager, whether the call succeeds or fails at the database;
\* config.yaml is rewritten by a successful call to hold the whole dict, and
\* left as it is by a failed one; no other operation changes the dict, the
\* manager or the files.
C21_UnsuppliedKept ==
    [][/\ (ret'.tool = "set_configuration" /\ ret'.value.kind \in {"updated", "raise"}) =>
             /\ \A i \in 1..4 :
                   ret'.args[i] = <<>> =>
                      /\ cfg'[ConfigFields[i]] = cfg[ConfigFields[i]]
                      /\ mgr'[ConfigFields[i]] = mgr[ConfigFields[i]]
             /\ ret'.args[4] = <<>> => mgr'.local_timezone = mgr.local_timezone
             /\ ret'.value.kind = "updated" => disk'.yaml = cfg'
             /\ ret'.value.kind = "raise" => disk'.yaml = disk.yaml
       /\ ret'.tool # "set_configuration" => (cfg' = cfg /\ mgr' = mgr /\ disk' = disk)]_vars

C21_Witness ==
    /\ Accepted
    /\ ret.args = <<<<>>, <<>>, <<>>, <<PyStr(" True ")>>>>
    /\ cfg.device_name = "camera"
    /\ cfg.db_path = "p2"
    /\ mgr.device_mac = "m2"

\* C22: once a set_configuration call has been accepted, what the get tool
\* reports is the in-memory configuration, and it is the content of
\* config.yaml.
C22_WriteThrough ==
    ret.tool = "get_configuration_and_db_stats" =>
        /\ ret.value.config = JsonDumps(cfg)
        /\ disk.backups # {} => ret.value.config = JsonDumps(disk.yaml)

\* The entry a scan owes to address a after the advertisements heard: the
\* last one of a that carried readings, or the first one of a when none did.
Owed(heard, a) ==
    LET of_a    == {i \in 1..Len(heard) : heard[i].address = a}
        reading == {i \in of_a : heard[i].readings}
    IN  IF reading # {}
        THEN heard[CHOOSE i \in reading : \A j \in reading : j <= i]
        ELSE heard[CHOOSE i \in of_a : \A j \in of_a : i <= j]

\* The result a scan owes after the advertisements heard.
OwedResult(heard) == {Owed(heard, a) : a \in {heard[i].address : i \in 1..Len(heard)}}

\* C23: during a scan and at its return, the result holds for every address
\* heard exactly the entry owed to it, and nothing else; a scan that heard
\* nothing reports that no device was found.
C23_ScanResult ==
    /\ scan.pc = "scanning" => scan.discovered = OwedResult(scan.heard)
    /\ ret.tool = "scan_devices" =>
          IF ret.read[1] = <<>>
          THEN ret.value.kind = "none_found"
          ELSE /\ ret.value.kind = "listing"
               /\ ret.value.devices = OwedResult(ret.read[1])
               /\ \A a, b \in ret.value.devices : a.address = b.address => a = b

\* A scan has returned that heard an advertisement with readings and later
\* one without from the same address.
C23_Witness ==
    /\ ret.tool = "scan_devices"
    /\ \E i, j \in 1..Len(ret.read[1]) :
          /\ i < j
          /\ ret.read[1][i].address = ret.read[1][j].address
          /\ ret.read[1][i].readings
          /\ ~ret.read[1][j].readings
          /\ ret.read[1][i] \in ret.value.devices

\* get_configuration_and_db_stats has just returned.
StatsReturned == ret.tool = "get_configuration_and_db_stats"

\* C24: on an empty store the statistics are a report and not an error: a
\* total of 0, no devices, and "N/A" for the earliest and the latest date.
C24_EmptyStoreStats ==
    (StatsReturned /\ Rows(mgr.db_path) = {}) =>
        /\ ret.value.stats.kind = "stats"
        /\ ret.value.stats.total_measurements = 0
        /\ DOMAIN ret.value.stats.devices = {}
        /\ ret.value.stats.beginning_date = <<>>
        /\ ret.value.stats.most_recent_date = <<>>

\* The statistics of an empty store were asked for while the other database
\* holds rows.
C24_Witness ==
    /\ StatsReturned
    /\ Rows(mgr.db_path) = {}
    /\ \E p \in Paths : Rows(p) # {}

\* C25: the rows a fetch inserts when it resumes are stored under the device
\* name, and in the database, that its watermark was read with.
C25_RowsWhereWatermarkWasRead ==
    [][\A t \in Tasks :
          (fetch[t].pc = "await" /\ fetch'[t].pc = "idle" /\ FetchReturned(ret')) =>
              \A p \in Paths : \A r \in store'[p].rows \ store[p].rows :
                 /\ p = fetch[t].watermark.db
                 /\ r.device = fetch[t].watermark.device]_vars

\* The row that a fetch under device_name stores for the record e.
RowFor(device_name, e) ==
    [device |-> device_name, timestamp |-> e.date, temperature |-> e.temperature,
     humidity |-> e.humidity, pressure |-> e.pressure, CO2 |-> e.co2]

\* C26: however two fetches of the configured device interleave, the store
\* is what fetches run one after the other leave: no pair (device, timestamp)
\* twice, every row the row of a record of the device with CO2 >= 0, and when
\* a fetch returns, every such record dated up to the end of its window is
\* stored.
C26_InterleavedFetches ==
    /\ \A r1, r2 \in Rows(mgr.db_path) : SameKey(r1, r2) => r1 = r2
    /\ \A r \in Rows(mgr.db_path) :
          \E e \in log[mgr.device_mac] : e.co2 >= 0 /\ r = RowFor(mgr.device_name, e)
    /\ FetchReturned(ret) =>
          \A e \in log[mgr.device_mac] :
             (e.co2 >= 0 /\ e.date <= ret.read[1].filter.end.inst) =>
                RowFor(mgr.device_name, e) \in Rows(mgr.db_path)

\* A fetch that found no watermark when it started has returned, and the
\* store holds a row dated after the end of its window: another fetch started
\* and inserted while this one was suspended.
C26_Witness ==
    /\ FetchReturned(ret)
    /\ \A t \in Tasks : fetch[t].pc = "idle"
    /\ ret.read[1].filter.start = <<>>
    /\ \E r \in Rows(mgr.db_path) : r.timestamp > ret.read[1].filter.end.inst
    /\ \E r \in Rows(mgr.db_path) : r.timestamp <= ret.read[1].filter.end.inst

\* C27: the column names a query hands on with its rows are as many as the
\* values of each row, in the tuple it returns and in the table it renders.
C27_ColumnsMatchRows ==
    ret.tool \in {"get_recent_data", "get_data_by_timerange"} =>
        /\ ret.value.kind = "column_data" =>
              \A i \in 1..Len(ret.value.rows) :
                 Len(ret.value.columns) = Len(ret.value.rows[i])
        /\ ret.value.kind = "markdown" =>
              \A i \in 1..Len(ret.value.text.lines) :
                 Len(ret.value.text.header) = Len(ret.value.text.lines[i])

\* C28: a set_configuration call that fails part-way leaves the dict, the
\* manager and config.yaml as they were before the call.
C28_AllOrNothing ==
    [][(ret'.tool = "set_configuration" /\ ret'.value.kind = "raise") =>
          /\ cfg' = cfg
          /\ mgr' = mgr
          /\ disk'.yaml = disk.yaml]_vars

\* C29: no step loses the content of a backup file: every configuration held
\* by a backup before the step is held by a backup after it.
C29_BackupsKept ==
    [][\A b \in disk.backups : \E b2 \in disk'.backups : b2.content = b.content]_vars

\* C30: when the store holds a row, the statistics give the least and the
\* greatest stored timestamp as the earliest and the latest date, and not
\* "N/A".
C30_StatsDates ==
    (StatsReturned /\ Rows(mgr.db_path) # {}) =>
        LET ts == {r.timestamp : r \in Rows(mgr.db_path)}
        IN  /\ ret.value.stats.beginning_date =
                  <<Shown(CHOOSE m \in ts : \A u \in ts : m <= u)>>
            /\ ret.value.stats.most_recent_date =
                  <<Shown(CHOOSE m \in ts : \A u \in ts : u <= m)>>

====
